---- MODULE Spec2Model ----
(***************************************************************************)
(* State-machine model of the MQTT fan entity                              *)
(* (homeassistant/components/mqtt/fan.py, class MqttFan).                  *)
(*                                                                         *)
(* Payloads and literals are strings, modelled as sequences of one-char    *)
(* strings so that Python's truthiness test (`not payload`) and int()      *)
(* parsing are computed rather than assumed.  Optional values (None / v)   *)
(* are the sequences << >> and <<v>>.                                      *)
(***************************************************************************)
EXTENDS Integers, Sequences, FiniteSets, TLC

(***************************************************************************)
(* Optional values.                                                        *)
(***************************************************************************)
None == << >>
Some(v) == <<v>>

(***************************************************************************)
(* Strings.                                                                *)
(***************************************************************************)
EMPTY == << >>
ON == <<"O", "N">>
OFF == <<"O", "F", "F">>
S_None == <<"N", "o", "n", "e">>
S_osc_on == <<"o", "s", "c", "_", "o", "n">>
S_osc_off == <<"o", "s", "c", "_", "o", "f", "f">>
S_eco == <<"e", "c", "o">>
S_auto == <<"a", "u", "t", "o">>
S_turbo == <<"t", "u", "r", "b", "o">>
S_reset == <<"r", "s", "t">>

\* DEFAULT_PAYLOAD_ON / DEFAULT_PAYLOAD_OFF / DEFAULT_PAYLOAD_RESET
DEFAULT_PAYLOAD_ON == ON
DEFAULT_PAYLOAD_OFF == OFF
DEFAULT_PAYLOAD_RESET == S_None
\* OSCILLATE_ON_PAYLOAD / OSCILLATE_OFF_PAYLOAD ("oscillate_on"/"oscillate_off",
\* abbreviated)
OSCILLATE_ON_PAYLOAD == S_osc_on
OSCILLATE_OFF_PAYLOAD == S_osc_off
\* mqtt.const.PAYLOAD_NONE
PAYLOAD_NONE == S_None

(***************************************************************************)
(* Python int(str): surrounding whitespace is stripped, one optional sign, *)
(* then at least one decimal digit and nothing else; anything else raises  *)
(* ValueError.                                                             *)
(***************************************************************************)
DigitChars == <<"0", "1", "2", "3", "4", "5", "6", "7", "8", "9">>
IsDigit(c) == \E i \in 1..10 : DigitChars[i] = c
DigitVal(c) == (CHOOSE i \in 1..10 : DigitChars[i] = c) - 1

RECURSIVE LStrip(_)
LStrip(s) == IF s # << >> /\ Head(s) = " " THEN LStrip(Tail(s)) ELSE s

RECURSIVE RStrip(_)
RStrip(s) ==
    IF s # << >> /\ s[Len(s)] = " " THEN RStrip(SubSeq(s, 1, Len(s) - 1)) ELSE s

RECURSIVE DigitsValue(_)
DigitsValue(s) ==
    IF s = << >> THEN 0
    ELSE 10 * DigitsValue(SubSeq(s, 1, Len(s) - 1)) + DigitVal(s[Len(s)])

\* [ok |-> FALSE] models ValueError
py_int(s) ==
    LET t == RStrip(LStrip(s))
        signed == t # << >> /\ Head(t) \in {"+", "-"}
        body == IF signed THEN Tail(t) ELSE t
    IN  IF body # << >> /\ \A i \in 1..Len(body) : IsDigit(body[i])
        THEN [ok |-> TRUE,
              val |-> IF signed /\ Head(t) = "-"
                      THEN 0 - DigitsValue(body) ELSE DigitsValue(body)]
        ELSE [ok |-> FALSE, val |-> 0]

(***************************************************************************)
(* homeassistant.util.percentage                                           *)
(***************************************************************************)
states_in_range(low_high_range) == low_high_range[2] - low_high_range[1] + 1

ranged_value_to_percentage(low_high_range, value) ==
    LET offset == low_high_range[1] - 1
    IN  ((value - offset) * 100) \div states_in_range(low_high_range)

\* math.ceil(percentage_to_ranged_value(range, percentage)), in integers
ceil_percentage_to_ranged_value(low_high_range, percentage) ==
    LET offset == low_high_range[1] - 1
        n == states_in_range(low_high_range) * percentage
    IN  (0 - ((0 - n) \div 100)) + offset

(***************************************************************************)
(* Validated configuration (the output of DISCOVERY_SCHEMA).  A topic is   *)
(* None when the option is not given.                                      *)
(***************************************************************************)
DefaultConfig ==
    [optimistic |-> FALSE,
     state_topic |-> Some("state"),
     command_topic |-> Some("command"),
     percentage_state_topic |-> Some("percentage_state"),
     percentage_command_topic |-> Some("percentage_command"),
     preset_mode_state_topic |-> Some("preset_mode_state"),
     preset_mode_command_topic |-> Some("preset_mode_command"),
     oscillation_state_topic |-> Some("oscillation_state"),
     oscillation_command_topic |-> Some("oscillation_command"),
     speed_range_min |-> 1,
     speed_range_max |-> 100,
     preset_modes |-> <<S_eco, S_auto>>,
     payload_on |-> DEFAULT_PAYLOAD_ON,
     payload_off |-> DEFAULT_PAYLOAD_OFF,
     payload_oscillation_on |-> OSCILLATE_ON_PAYLOAD,
     payload_oscillation_off |-> OSCILLATE_OFF_PAYLOAD,
     payload_reset_percentage |-> DEFAULT_PAYLOAD_RESET,
     payload_reset_preset_mode |-> DEFAULT_PAYLOAD_RESET]

\* the configurations the entity is set up with: every state topic present or
\* absent, the global optimistic flag, each state topic absent on its own,
\* other speed ranges, preset lists and payload literals
Configs ==
    { DefaultConfig,
      [DefaultConfig EXCEPT !.optimistic = TRUE],
      [DefaultConfig EXCEPT !.state_topic = None,
                            !.percentage_state_topic = None,
                            !.preset_mode_state_topic = None,
                            !.oscillation_state_topic = None],
      [DefaultConfig EXCEPT !.state_topic = None,
                            !.speed_range_min = 1, !.speed_range_max = 3,
                            !.payload_reset_percentage = EMPTY,
                            !.payload_reset_preset_mode = EMPTY],
      [DefaultConfig EXCEPT !.percentage_state_topic = None,
                            !.speed_range_min = 5, !.speed_range_max = 10],
      [DefaultConfig EXCEPT !.preset_mode_state_topic = None,
                            !.preset_modes = <<S_auto, S_turbo>>,
                            !.payload_reset_preset_mode = S_reset,
                            !.payload_reset_percentage = S_reset],
      [DefaultConfig EXCEPT !.oscillation_state_topic = None,
                            !.payload_on = PAYLOAD_NONE,
                            !.payload_oscillation_off = OFF],
      [DefaultConfig EXCEPT !.preset_mode_command_topic = None,
                            !.preset_modes = << >>] }

(***************************************************************************)
(* MqttFan._setup_from_config: the attributes derived from the config.     *)
(***************************************************************************)
\* faulty variant of Optimistic: the global flag is ignored
Optimistic_TopicOnly(optimistic, state_topic) == state_topic = None

Optimistic(optimistic, state_topic) == optimistic \/ state_topic = None

setup_from_config(cfg) ==
    LET feature_preset_mode == cfg.preset_mode_command_topic # None
    IN  [speed_range |-> <<cfg.speed_range_min, cfg.speed_range_max>>,
         topic |->
            [state_topic |-> cfg.state_topic,
             command_topic |-> cfg.command_topic,
             percentage_state_topic |-> cfg.percentage_state_topic,
             percentage_command_topic |-> cfg.percentage_command_topic,
             preset_mode_state_topic |-> cfg.preset_mode_state_topic,
             preset_mode_command_topic |-> cfg.preset_mode_command_topic,
             oscillation_state_topic |-> cfg.oscillation_state_topic,
             oscillation_command_topic |-> cfg.oscillation_command_topic],
         payload |->
            [STATE_ON |-> cfg.payload_on,
             STATE_OFF |-> cfg.payload_off,
             OSCILLATE_ON_PAYLOAD |-> cfg.payload_oscillation_on,
             OSCILLATE_OFF_PAYLOAD |-> cfg.payload_oscillation_off,
             PERCENTAGE_RESET |-> cfg.payload_reset_percentage,
             PRESET_MODE_RESET |-> cfg.payload_reset_preset_mode],
         feature_percentage |-> cfg.percentage_command_topic # None,
         feature_preset_mode |-> feature_preset_mode,
         preset_modes |-> IF feature_preset_mode THEN cfg.preset_modes ELSE << >>,
         optimistic |-> Optimistic(cfg.optimistic, cfg.state_topic),
         optimistic_oscillation |->
            Optimistic(cfg.optimistic, cfg.oscillation_state_topic),
         optimistic_percentage |->
            Optimistic(cfg.optimistic, cfg.percentage_state_topic),
         optimistic_preset_mode |->
            Optimistic(cfg.optimistic, cfg.preset_mode_state_topic)]

(***************************************************************************)
(* The message callbacks of MqttFan._prepare_subscribe_topics.  Each takes *)
(* the entity's derived attributes, the state attributes and the rendered  *)
(* payload (no value template is configured, so the payload is rendered    *)
(* unchanged) and returns the new state attributes, the number of state    *)
(* writes it requested and what it logged.                                 *)
(***************************************************************************)
InSeq(x, seq) == \E i \in 1..Len(seq) : seq[i] = x

Handled(a, w, l) == [attr |-> a, writes |-> w, log |-> l]

\* faulty variant of state_received: a payload that matches no literal requests no
\* state write
state_received_SilentUnknown(self, attr, payload) ==
    IF payload = EMPTY THEN Handled(attr, 0, "debug")
    ELSE IF payload = self.payload.STATE_ON
    THEN Handled([attr EXCEPT !.is_on = Some(TRUE)], 1, "none")
    ELSE IF payload = self.payload.STATE_OFF
    THEN Handled([attr EXCEPT !.is_on = Some(FALSE)], 1, "none")
    ELSE IF payload = PAYLOAD_NONE
    THEN Handled([attr EXCEPT !.is_on = None], 1, "none")
    ELSE Handled(attr, 0, "none")

\* faulty variant of state_received: PAYLOAD_NONE is compared first
state_received_NoneFirst(self, attr, payload) ==
    IF payload = EMPTY THEN Handled(attr, 0, "debug")
    ELSE LET new ==
                 IF payload = PAYLOAD_NONE
                 THEN [attr EXCEPT !.is_on = None]
                 ELSE IF payload = self.payload.STATE_ON
                 THEN [attr EXCEPT !.is_on = Some(TRUE)]
                 ELSE IF payload = self.payload.STATE_OFF
                 THEN [attr EXCEPT !.is_on = Some(FALSE)]
                 ELSE attr
         IN  Handled(new, 1, "none")

state_received(self, attr, payload) ==
    IF payload = EMPTY THEN Handled(attr, 0, "debug")
    ELSE LET new ==
                 IF payload = self.payload.STATE_ON
                 THEN [attr EXCEPT !.is_on = Some(TRUE)]
                 ELSE IF payload = self.payload.STATE_OFF
                 THEN [attr EXCEPT !.is_on = Some(FALSE)]
                 ELSE IF payload = PAYLOAD_NONE
                 THEN [attr EXCEPT !.is_on = None]
                 ELSE attr
         IN  Handled(new, 1, "none")

\* faulty variant of percentage_received: an out-of-range value is clamped
percentage_received_Clamp(self, attr, payload) ==
    IF payload = EMPTY THEN Handled(attr, 0, "debug")
    ELSE IF payload = self.payload.PERCENTAGE_RESET
    THEN Handled([attr EXCEPT !.percentage = None], 1, "none")
    ELSE LET parsed == py_int(payload)
             percentage == ranged_value_to_percentage(self.speed_range, parsed.val)
             clamped == IF percentage < 0 THEN 0
                        ELSE IF percentage > 100 THEN 100 ELSE percentage
         IN  IF ~parsed.ok THEN Handled(attr, 0, "warning")
             ELSE Handled([attr EXCEPT !.percentage = Some(clamped)], 1, "none")

\* faulty variant of percentage_received: an unchanged value requests no state write
percentage_received_Dedup(self, attr, payload) ==
    IF payload = EMPTY THEN Handled(attr, 0, "debug")
    ELSE IF payload = self.payload.PERCENTAGE_RESET
    THEN Handled([attr EXCEPT !.percentage = None],
                 IF attr.percentage = None THEN 0 ELSE 1, "none")
    ELSE LET parsed == py_int(payload)
             percentage == ranged_value_to_percentage(self.speed_range, parsed.val)
         IN  IF ~parsed.ok THEN Handled(attr, 0, "warning")
             ELSE IF percentage < 0 \/ percentage > 100
             THEN Handled(attr, 0, "warning")
             ELSE Handled([attr EXCEPT !.percentage = Some(percentage)],
                          IF attr.percentage = Some(percentage) THEN 0 ELSE 1,
                          "none")

\* faulty variant of percentage_received: the range of the percentage is not
\* tested
percentage_received_Unchecked(self, attr, payload) ==
    IF payload = EMPTY THEN Handled(attr, 0, "debug")
    ELSE IF payload = self.payload.PERCENTAGE_RESET
    THEN Handled([attr EXCEPT !.percentage = None], 1, "none")
    ELSE LET parsed == py_int(payload)
             percentage == ranged_value_to_percentage(self.speed_range, parsed.val)
         IN  IF ~parsed.ok THEN Handled(attr, 0, "warning")
             ELSE Handled([attr EXCEPT !.percentage = Some(percentage)], 1, "none")

percentage_received(self, attr, payload) ==
    IF payload = EMPTY THEN Handled(attr, 0, "debug")
    ELSE IF payload = self.payload.PERCENTAGE_RESET
    THEN Handled([attr EXCEPT !.percentage = None], 1, "none")
    ELSE LET parsed == py_int(payload)
             percentage == ranged_value_to_percentage(self.speed_range, parsed.val)
         IN  IF ~parsed.ok THEN Handled(attr, 0, "warning")
             ELSE IF percentage < 0 \/ percentage > 100
             THEN Handled(attr, 0, "warning")
             ELSE Handled([attr EXCEPT !.percentage = Some(percentage)], 1, "none")

\* faulty variant of preset_mode_received: the empty payload is tested first
preset_mode_received_EmptyFirst(self, attr, payload) ==
    IF payload = EMPTY THEN Handled(attr, 0, "debug")
    ELSE IF payload = self.payload.PRESET_MODE_RESET
    THEN Handled([attr EXCEPT !.preset_mode = None], 1, "none")
    ELSE IF self.preset_modes = << >> \/ ~InSeq(payload, self.preset_modes)
    THEN Handled(attr, 0, "warning")
    ELSE Handled([attr EXCEPT !.preset_mode = Some(payload)], 1, "none")

\* faulty variant of preset_mode_received: the mode is not looked up in preset_modes
preset_mode_received_AcceptAny(self, attr, payload) ==
    IF payload = self.payload.PRESET_MODE_RESET
    THEN Handled([attr EXCEPT !.preset_mode = None], 1, "none")
    ELSE IF payload = EMPTY THEN Handled(attr, 0, "debug")
    ELSE Handled([attr EXCEPT !.preset_mode = Some(payload)], 1, "none")

preset_mode_received(self, attr, payload) ==
    IF payload = self.payload.PRESET_MODE_RESET
    THEN Handled([attr EXCEPT !.preset_mode = None], 1, "none")
    ELSE IF payload = EMPTY THEN Handled(attr, 0, "debug")
    ELSE IF self.preset_modes = << >> \/ ~InSeq(payload, self.preset_modes)
    THEN Handled(attr, 0, "warning")
    ELSE Handled([attr EXCEPT !.preset_mode = Some(payload)], 1, "none")

oscillation_received(self, attr, payload) ==
    IF payload = EMPTY THEN Handled(attr, 0, "debug")
    ELSE LET new ==
                 IF payload = self.payload.OSCILLATE_ON_PAYLOAD
                 THEN [attr EXCEPT !.oscillating = Some(TRUE)]
                 ELSE IF payload = self.payload.OSCILLATE_OFF_PAYLOAD
                 THEN [attr EXCEPT !.oscillating = Some(FALSE)]
                 ELSE attr
         IN  Handled(new, 1, "none")

\* faulty variant of prepare_subscribe_topics: every state attribute is reset
prepare_subscribe_topics_ResetAll(self, attr) ==
    [is_on |-> None, percentage |-> None, preset_mode |-> None,
     oscillating |-> None]

\* the state attributes after _prepare_subscribe_topics has built the topics
prepare_subscribe_topics(self, attr) ==
    [attr EXCEPT
       !.percentage =
           IF self.topic.percentage_state_topic # None THEN None ELSE @,
       !.preset_mode =
           IF self.topic.preset_mode_state_topic # None THEN None ELSE @,
       !.oscillating =
           IF self.topic.oscillation_state_topic # None THEN Some(FALSE) ELSE @]

\* faulty variant of subscribed_topics: an entry for every channel
subscribed_topics_All(self) ==
    {"state_topic", "percentage_state_topic", "preset_mode_state_topic",
     "oscillation_state_topic"}

\* the keys of the topics dict built by _prepare_subscribe_topics
subscribed_topics(self) ==
    { k \in {"state_topic", "percentage_state_topic",
             "preset_mode_state_topic", "oscillation_state_topic"} :
        self.topic[k] # None }

\* the subscriptions prepared at the end of _prepare_subscribe_topics: the
\* key and the topic of every entry of the topics dict
sub_state(self) == { <<k, self.topic[k]>> : k \in subscribed_topics(self) }

\* MqttFan.assumed_state
assumed_state(self) == self.optimistic

(***************************************************************************)
(* Python str(int), as used when an integer payload is published.          *)
(***************************************************************************)
RECURSIVE NatToStr(_)
NatToStr(n) ==
    IF n < 10 THEN <<DigitChars[n + 1]>>
    ELSE NatToStr(n \div 10) \o <<DigitChars[(n % 10) + 1]>>

py_str(n) == IF n < 0 THEN <<"-">> \o NatToStr(0 - n) ELSE NatToStr(n)

(***************************************************************************)
(* The command coroutines.  A coroutine runs from one await of             *)
(* async_publish to the next; each such segment yields the new state       *)
(* attributes, the events it produced, in order, and where it stopped.     *)
(***************************************************************************)
Publish(topic, payload) == [ev |-> "publish", key |-> topic, payload |-> payload]
SetAttr(name) == [ev |-> "set", key |-> Some(name), payload |-> EMPTY]
WriteHaState == [ev |-> "write_ha_state", key |-> None, payload |-> EMPTY]

Segment(a, evs, pc, out) == [attr |-> a, events |-> evs, pc |-> pc, outcome |-> out]

\* python truthiness of an optional int / an optional str argument
Truthy(arg, falsy) == arg # None /\ arg[1] # falsy

\* FanEntity._valid_preset_mode_or_raise: TRUE when it does not raise
valid_preset_mode(self, preset_mode) ==
    self.preset_modes # << >> /\ InSeq(preset_mode, self.preset_modes)

\* end of async_turn_on, after the nested calls
turn_on_finish(self, attr, evs) ==
    IF self.optimistic
    THEN Segment([attr EXCEPT !.is_on = Some(TRUE)],
                 evs \o <<SetAttr("is_on"), WriteHaState>>, "idle", "returned")
    ELSE Segment(attr, evs, "idle", "returned")

\* async_turn_on from `if preset_mode:` on
turn_on_preset_mode(self, attr, evs, preset_mode) ==
    IF Truthy(preset_mode, EMPTY)
    THEN IF valid_preset_mode(self, preset_mode[1])
         THEN Segment(attr,
                      evs \o <<Publish(self.topic.preset_mode_command_topic,
                                       preset_mode[1])>>,
                      "turn_on.preset_mode", "suspended")
         ELSE Segment(attr, evs, "idle", "NotValidPresetModeError")
    ELSE turn_on_finish(self, attr, evs)

\* faulty variant of set_percentage_publish: the speed is rounded down
set_percentage_publish_Floor(self, percentage) ==
    Publish(self.topic.percentage_command_topic,
            py_str(((states_in_range(self.speed_range) * percentage) \div 100)
                   + self.speed_range[1] - 1))

\* faulty variant of set_percentage_publish: the lower end of the speed range
\* is not added
set_percentage_publish_NoOffset(self, percentage) ==
    Publish(self.topic.percentage_command_topic,
            py_str((states_in_range(self.speed_range) * percentage + 99) \div 100))

\* async_set_percentage up to its await
set_percentage_publish(self, percentage) ==
    Publish(self.topic.percentage_command_topic,
            py_str(ceil_percentage_to_ranged_value(self.speed_range, percentage)))

\* faulty variant of set_percentage_finish: the flag of the power channel decides
set_percentage_finish_PowerFlag(self, attr, percentage) ==
    IF self.optimistic
    THEN [attr |-> [attr EXCEPT !.percentage = Some(percentage)],
          events |-> <<SetAttr("percentage"), WriteHaState>>]
    ELSE [attr |-> attr, events |-> << >>]

\* faulty variant of set_percentage_finish: setting a percentage clears the
\* preset mode
set_percentage_finish_ClearPreset(self, attr, percentage) ==
    IF self.optimistic_percentage
    THEN [attr |-> [attr EXCEPT !.percentage = Some(percentage),
                                !.preset_mode = None],
          events |-> <<SetAttr("percentage"), WriteHaState>>]
    ELSE [attr |-> attr, events |-> << >>]

\* async_set_percentage after its await
set_percentage_finish(self, attr, percentage) ==
    IF self.optimistic_percentage
    THEN [attr |-> [attr EXCEPT !.percentage = Some(percentage)],
          events |-> <<SetAttr("percentage"), WriteHaState>>]
    ELSE [attr |-> attr, events |-> << >>]

\* faulty variant of set_preset_mode_finish: echoes whatever the flag is
set_preset_mode_finish_Always(self, attr, preset_mode) ==
    [attr |-> [attr EXCEPT !.preset_mode = Some(preset_mode)],
     events |-> <<SetAttr("preset_mode"), WriteHaState>>]

\* async_set_preset_mode after its await
set_preset_mode_finish(self, attr, preset_mode) ==
    IF self.optimistic_preset_mode
    THEN [attr |-> [attr EXCEPT !.preset_mode = Some(preset_mode)],
          events |-> <<SetAttr("preset_mode"), WriteHaState>>]
    ELSE [attr |-> attr, events |-> << >>]

\* async_turn_on from `if percentage:` on
turn_on_percentage(self, attr, evs, percentage, preset_mode) ==
    IF Truthy(percentage, 0)
    THEN Segment(attr, evs \o <<set_percentage_publish(self, percentage[1])>>,
                 "turn_on.percentage", "suspended")
    ELSE turn_on_preset_mode(self, attr, evs, preset_mode)

\* faulty variant of turn_on_start: the optimistic update is made before the publish
turn_on_start_EchoFirst(self, attr) ==
    IF self.optimistic
    THEN Segment([attr EXCEPT !.is_on = Some(TRUE)],
                 <<SetAttr("is_on"), WriteHaState,
                   Publish(self.topic.command_topic, self.payload.STATE_ON)>>,
                 "turn_on.state", "suspended")
    ELSE Segment(attr,
                 <<Publish(self.topic.command_topic, self.payload.STATE_ON)>>,
                 "turn_on.state", "suspended")

\* async_turn_on up to its first await
turn_on_start(self, attr) ==
    Segment(attr, <<Publish(self.topic.command_topic, self.payload.STATE_ON)>>,
            "turn_on.state", "suspended")

\* async_turn_off up to its await
turn_off_start(self, attr) ==
    Segment(attr, <<Publish(self.topic.command_topic, self.payload.STATE_OFF)>>,
            "turn_off", "suspended")

\* faulty variant of turn_off_finish: a state received in the meantime is kept
turn_off_finish_KeepReceived(self, attr) ==
    IF self.optimistic /\ attr.is_on = None
    THEN Segment([attr EXCEPT !.is_on = Some(FALSE)],
                 <<SetAttr("is_on"), WriteHaState>>, "idle", "returned")
    ELSE Segment(attr, << >>, "idle", "returned")

\* async_turn_off after its await
turn_off_finish(self, attr) ==
    IF self.optimistic
    THEN Segment([attr EXCEPT !.is_on = Some(FALSE)],
                 <<SetAttr("is_on"), WriteHaState>>, "idle", "returned")
    ELSE Segment(attr, << >>, "idle", "returned")

\* faulty variant of set_preset_mode_start: publishes without validating the mode
set_preset_mode_start_NoCheck(self, attr, preset_mode) ==
    Segment(attr, <<Publish(self.topic.preset_mode_command_topic, preset_mode)>>,
            "set_preset_mode", "suspended")

\* async_set_preset_mode up to its await
set_preset_mode_start(self, attr, preset_mode) ==
    IF valid_preset_mode(self, preset_mode)
    THEN Segment(attr,
                 <<Publish(self.topic.preset_mode_command_topic, preset_mode)>>,
                 "set_preset_mode", "suspended")
    ELSE Segment(attr, << >>, "idle", "NotValidPresetModeError")

\* async_oscillate up to its await
oscillate_start(self, attr, oscillating) ==
    Segment(attr,
            <<Publish(self.topic.oscillation_command_topic,
                      IF oscillating THEN self.payload.OSCILLATE_ON_PAYLOAD
                      ELSE self.payload.OSCILLATE_OFF_PAYLOAD)>>,
            "oscillate", "suspended")

\* async_oscillate after its await
oscillate_finish(self, attr, oscillating) ==
    IF self.optimistic_oscillation
    THEN Segment([attr EXCEPT !.oscillating = Some(oscillating)],
                 <<SetAttr("oscillating"), WriteHaState>>, "idle", "returned")
    ELSE Segment(attr, << >>, "idle", "returned")

\* the segment a coroutine runs when it is called
Start(self, attr, op, percentage, preset_mode, oscillating) ==
    CASE op = "async_turn_on" -> turn_on_start(self, attr)
      [] op = "async_turn_off" -> turn_off_start(self, attr)
      [] op = "async_set_percentage" ->
           Segment(attr, <<set_percentage_publish(self, percentage[1])>>,
                   "set_percentage", "suspended")
      [] op = "async_set_preset_mode" ->
           set_preset_mode_start(self, attr, preset_mode[1])
      [] op = "async_oscillate" -> oscillate_start(self, attr, oscillating[1])

\* the segment a suspended coroutine runs when its publish has completed
Resume(self, attr, c) ==
    CASE c.pc = "turn_on.state" ->
           turn_on_percentage(self, attr, << >>, c.percentage, c.preset_mode)
      [] c.pc = "turn_on.percentage" ->
           LET r == set_percentage_finish(self, attr, c.percentage[1])
           IN  turn_on_preset_mode(self, r.attr, r.events, c.preset_mode)
      [] c.pc = "turn_on.preset_mode" ->
           LET r == set_preset_mode_finish(self, attr, c.preset_mode[1])
           IN  turn_on_finish(self, r.attr, r.events)
      [] c.pc = "turn_off" -> turn_off_finish(self, attr)
      [] c.pc = "set_percentage" ->
           LET r == set_percentage_finish(self, attr, c.percentage[1])
           IN  Segment(r.attr, r.events, "idle", "returned")
      [] c.pc = "set_preset_mode" ->
           LET r == set_preset_mode_finish(self, attr, c.preset_mode[1])
           IN  Segment(r.attr, r.events, "idle", "returned")
      [] c.pc = "oscillate" -> oscillate_finish(self, attr, c.oscillating[1])

\* number of state writes among events
RECURSIVE Writes(_)
Writes(evs) ==
    IF evs = << >> THEN 0
    ELSE (IF Head(evs).ev = "write_ha_state" THEN 1 ELSE 0) + Writes(Tail(evs))

(***************************************************************************)
(* The entity.                                                             *)
(*   config  self._config, the validated configuration in force            *)
(*   entity  the attributes _setup_from_config derives from it             *)
(*   attr    the state attributes _attr_is_on, _attr_percentage,           *)
(*           _attr_preset_mode, _attr_oscillating                          *)
(*   call    the command coroutine in flight, suspended in async_publish   *)
(*   last    what the last step was and what it did                        *)
(***************************************************************************)
VARIABLES config, entity, attr, call, last

vars == <<config, entity, attr, call, last>>

\* inbound payloads, per key of the topics dict
Payloads(key) ==
    CASE key = "state_topic" -> {EMPTY, ON, OFF, S_None, S_turbo}
      [] key = "percentage_state_topic" ->
           {EMPTY, S_None, S_reset, <<" ", "2">>, <<"1", "0", "1">>, <<"-", "1">>,
            <<"4", "x">>}
      [] key = "preset_mode_state_topic" ->
           {EMPTY, S_None, S_reset, S_eco, S_turbo, ON}
      [] key = "oscillation_state_topic" -> {EMPTY, S_osc_on, OFF, S_osc_off, S_eco}

\* arguments of the commands
ArgPercentages == {42}
ArgPresetModes == {EMPTY, S_eco, S_turbo}
TurnOnArgs ==
    { <<None, None>>, <<Some(0), Some(EMPTY)>>, <<Some(42), None>>,
      <<None, Some(S_eco)>>, <<Some(42), Some(S_eco)>>, <<Some(42), Some(S_turbo)>>,
      <<Some(0), Some(S_turbo)>> }

Idle ==
    [op |-> "none", percentage |-> None, preset_mode |-> None, oscillating |-> None,
     pc |-> "idle", trace |-> << >>]

Step(op, c, outcome, writes, trace) ==
    [op |-> op, percentage |-> c.percentage,
     preset_mode |-> c.preset_mode, oscillating |-> c.oscillating,
     outcome |-> outcome, writes |-> writes, trace |-> trace]

\* FanEntity / ToggleEntity class attributes and MqttFan.__init__
InitialAttr ==
    [is_on |-> None, percentage |-> None, preset_mode |-> None, oscillating |-> None]

\* the entity after construction and async_added_to_hass
Init ==
    /\ config \in Configs
    /\ entity = setup_from_config(config)
    /\ attr = prepare_subscribe_topics(entity, InitialAttr)
    /\ call = Idle
    /\ last = Step("__init__", Idle, "returned", 0, << >>)

\* MqttEntity.discovery_update: a new configuration replaces the old one
Reconfigure(cfg) ==
    /\ cfg # config
    /\ config' = cfg
    /\ entity' = setup_from_config(cfg)
    /\ attr' = prepare_subscribe_topics(entity', attr)
    /\ last' = Step("discovery_update", Idle, "returned", 1, << >>)
    /\ UNCHANGED call

\* the callback subscribed under a key of the topics dict
Callback(key, self, a, payload) ==
    CASE key = "state_topic" -> state_received(self, a, payload)
      [] key = "percentage_state_topic" -> percentage_received(self, a, payload)
      [] key = "preset_mode_state_topic" -> preset_mode_received(self, a, payload)
      [] key = "oscillation_state_topic" -> oscillation_received(self, a, payload)

\* a message arrives on a subscribed state topic
Message(key, payload) ==
    /\ key \in subscribed_topics(entity)
    /\ LET r == Callback(key, entity, attr, payload)
       IN  /\ attr' = r.attr
           /\ last' = Step(key, Idle, r.log, r.writes, << >>)
    /\ UNCHANGED <<config, entity, call>>

\* the host calls a command; it runs up to its first await (or raises)
Invoke(op, percentage, preset_mode, oscillating) ==
    /\ call.pc = "idle"
    /\ LET c == [Idle EXCEPT !.op = op, !.percentage = percentage,
                             !.preset_mode = preset_mode,
                             !.oscillating = oscillating]
           r == Start(entity, attr, op, percentage, preset_mode, oscillating)
       IN  /\ attr' = r.attr
           /\ call' = IF r.pc = "idle" THEN Idle
                      ELSE [c EXCEPT !.pc = r.pc, !.trace = r.events]
           /\ last' = Step(op, c, r.outcome, Writes(r.events), r.events)
    /\ UNCHANGED <<config, entity>>

TurnOn(percentage, preset_mode) ==
    Invoke("async_turn_on", percentage, preset_mode, None)

TurnOff == Invoke("async_turn_off", None, None, None)

SetPercentage(percentage) ==
    /\ entity.feature_percentage
    /\ Invoke("async_set_percentage", Some(percentage), None, None)

SetPresetMode(preset_mode) ==
    /\ entity.feature_preset_mode
    /\ Invoke("async_set_preset_mode", None, Some(preset_mode), None)

Oscillate(oscillating) ==
    /\ entity.topic.oscillation_command_topic # None
    /\ Invoke("async_oscillate", None, None, Some(oscillating))

\* the publish a coroutine awaits completes and the coroutine runs on
PublishDone ==
    /\ call.pc # "idle"
    /\ LET r == Resume(entity, attr, call)
           trace == call.trace \o r.events
       IN  /\ attr' = r.attr
           /\ call' = IF r.pc = "idle" THEN Idle
                      ELSE [call EXCEPT !.pc = r.pc, !.trace = trace]
           /\ last' = Step(call.op, call, r.outcome, Writes(r.events), trace)
    /\ UNCHANGED <<config, entity>>

\* faulty variant of PublishFailed: the exception is raised only after the rest
\* of the coroutine has run
PublishFailed_Fallback ==
    /\ call.pc # "idle"
    /\ attr' = Resume(entity, attr, call).attr
    /\ call' = Idle
    /\ last' = Step(call.op, call, "HomeAssistantError", 0, call.trace)
    /\ UNCHANGED <<config, entity>>

\* the publish a coroutine awaits raises; the exception reaches the caller
PublishFailed ==
    /\ call.pc # "idle"
    /\ call' = Idle
    /\ last' = Step(call.op, call, "HomeAssistantError", 0, call.trace)
    /\ UNCHANGED <<config, entity, attr>>

Next ==
    \/ \E cfg \in Configs : Reconfigure(cfg)
    \/ \E key \in {"state_topic", "percentage_state_topic",
                   "preset_mode_state_topic", "oscillation_state_topic"} :
          \E payload \in Payloads(key) : Message(key, payload)
    \/ \E args \in TurnOnArgs : TurnOn(args[1], args[2])
    \/ TurnOff
    \/ \E percentage \in ArgPercentages : SetPercentage(percentage)
    \/ \E preset_mode \in ArgPresetModes : SetPresetMode(preset_mode)
    \/ \E oscillating \in BOOLEAN : Oscillate(oscillating)
    \/ PublishDone
    \/ PublishFailed

Spec == Init /\ [][Next]_vars

(***************************************************************************)
(* The inbound path on its own.  Here last remembers the payload of the    *)
(* last message, the state attributes before it (before), whether it       *)
(* repeated the message of the step before it (repeat = 2) and the state   *)
(* writes of that step (writes_before).                                    *)
(***************************************************************************)
Delivery(key, payload) ==
    /\ key \in subscribed_topics(entity)
    /\ LET r == Callback(key, entity, attr, payload)
       IN  /\ attr' = r.attr
           /\ last' = [op |-> key, payload |-> payload, writes |-> r.writes,
                       outcome |-> r.log,
                       repeat |-> IF last.op = key /\ last.payload = payload
                                  THEN 2 ELSE 1,
                       before |-> attr, writes_before |-> last.writes]
    /\ UNCHANGED <<config, entity, call>>

Reconfiguration(cfg) ==
    /\ cfg # config
    /\ config' = cfg
    /\ entity' = setup_from_config(cfg)
    /\ attr' = prepare_subscribe_topics(entity', attr)
    /\ last' = [op |-> "discovery_update", payload |-> EMPTY, writes |-> 1,
                outcome |-> "none", repeat |-> 1, before |-> attr,
                writes_before |-> last.writes]
    /\ UNCHANGED call

InitInbound ==
    /\ config \in Configs
    /\ entity = setup_from_config(config)
    /\ attr = prepare_subscribe_topics(entity, InitialAttr)
    /\ call = Idle
    /\ last = [op |-> "__init__", payload |-> EMPTY, writes |-> 0,
               outcome |-> "none", repeat |-> 1, before |-> InitialAttr,
               writes_before |-> 0]

NextInbound ==
    \/ \E cfg \in Configs : Reconfiguration(cfg)
    \/ \E key \in {"state_topic", "percentage_state_topic",
                   "preset_mode_state_topic", "oscillation_state_topic"} :
          \E payload \in Payloads(key) : Delivery(key, payload)

SpecInbound == InitInbound /\ [][NextInbound]_vars

(***************************************************************************)
(* Properties of the command coroutines (specification Spec).              *)
(***************************************************************************)
\* the events of the segment run by the step
NewEvents == SubSeq(last'.trace, Len(call.trace) + 1, Len(last'.trace))

\* how often evs sets the attribute and then writes the state
Echoes(evs, name) ==
    Cardinality({ i \in 1..(Len(evs) - 1) :
                    evs[i] = SetAttr(name) /\ evs[i + 1] = WriteHaState })

\* how often evs sets the attribute
Sets(evs, name) == Cardinality({ i \in 1..Len(evs) : evs[i] = SetAttr(name) })

EchoedOnce(evs, name) == Sets(evs, name) = 1 /\ Echoes(evs, name) = 1

\* what a completed publish of a channel without a state topic brings about;
\* ended says in which steps of an async_turn_on the update of is_on is due
EchoAfterPublish(ended) ==
    PublishDone =>
        /\ (/\ call.pc \in {"set_percentage", "turn_on.percentage"}
            /\ entity.topic.percentage_state_topic = None)
           => /\ attr'.percentage = call.percentage
              /\ EchoedOnce(NewEvents, "percentage")
        /\ (/\ call.pc \in {"set_preset_mode", "turn_on.preset_mode"}
            /\ entity.topic.preset_mode_state_topic = None)
           => /\ attr'.preset_mode = call.preset_mode
              /\ EchoedOnce(NewEvents, "preset_mode")
        /\ (call.pc = "oscillate" /\ entity.topic.oscillation_state_topic = None)
           => /\ attr'.oscillating = call.oscillating
              /\ EchoedOnce(NewEvents, "oscillating")
              /\ last'.outcome = "returned"
        /\ (call.pc = "turn_off" /\ entity.topic.state_topic = None)
           => /\ attr'.is_on = Some(FALSE)
              /\ EchoedOnce(NewEvents, "is_on")
              /\ last'.outcome = "returned"
        /\ (/\ call.op = "async_turn_on"
            /\ ended
            /\ entity.topic.state_topic = None)
           => /\ attr'.is_on = Some(TRUE)
              /\ EchoedOnce(last'.trace, "is_on")

\* C1: when the publish of a channel's command operation has succeeded and
\* the channel's state topic is absent, the channel's attribute is set to the
\* commanded value and the state is written exactly once for it by the time
\* the operation is over (for async_turn_on: by the time it has ended after
\* publishes that all succeeded)
C1_OptimisticEcho == [][EchoAfterPublish(call'.pc = "idle")]_vars

\* C1, as far as it holds: the same for every operation that returns
C1_EchoOnReturn == [][EchoAfterPublish(last'.outcome = "returned")]_vars

\* what a completed publish of a channel with a state topic must leave alone,
\* under the condition cond on the configuration
NoEcho(cond) ==
    PublishDone =>
        /\ (/\ call.pc = "set_percentage"
            /\ entity.topic.percentage_state_topic # None /\ cond)
           => attr' = attr /\ last'.writes = 0
        /\ (/\ call.pc = "set_preset_mode"
            /\ entity.topic.preset_mode_state_topic # None /\ cond)
           => attr' = attr /\ last'.writes = 0
        /\ (/\ call.pc = "oscillate"
            /\ entity.topic.oscillation_state_topic # None /\ cond)
           => attr' = attr /\ last'.writes = 0
        /\ (call.pc = "turn_off" /\ entity.topic.state_topic # None /\ cond)
           => attr' = attr /\ last'.writes = 0
        /\ (/\ call.pc = "turn_on.percentage"
            /\ entity.topic.percentage_state_topic # None /\ cond)
           => /\ attr'.percentage = attr.percentage
              /\ Sets(NewEvents, "percentage") = 0
        /\ (/\ call.pc = "turn_on.preset_mode"
            /\ entity.topic.preset_mode_state_topic # None /\ cond)
           => /\ attr'.preset_mode = attr.preset_mode
              /\ Sets(NewEvents, "preset_mode") = 0
        /\ (/\ call.op = "async_turn_on"
            /\ entity.topic.state_topic # None /\ cond)
           => /\ attr'.is_on = attr.is_on
              /\ Sets(NewEvents, "is_on") = 0

\* a channel with a state topic changes its attribute only in the callback
\* of that topic, while the configuration stays and is not optimistic
OnlyByMessage ==
    (config' = config /\ ~config.optimistic) =>
        /\ (entity.topic.state_topic # None /\ attr'.is_on # attr.is_on)
           => last'.op = "state_topic"
        /\ (/\ entity.topic.percentage_state_topic # None
            /\ attr'.percentage # attr.percentage)
           => last'.op = "percentage_state_topic"
        /\ (/\ entity.topic.preset_mode_state_topic # None
            /\ attr'.preset_mode # attr.preset_mode)
           => last'.op = "preset_mode_state_topic"
        /\ (/\ entity.topic.oscillation_state_topic # None
            /\ attr'.oscillating # attr.oscillating)
           => last'.op = "oscillation_state_topic"

\* C2 as stated: for every configuration, a completed publish of a channel
\* that has a state topic changes no state attribute and writes no state
C2_Original == [][NoEcho(TRUE)]_vars

\* C2 amended: when the global optimistic flag is not set, a completed
\* publish of a channel that has a state topic changes no state attribute
\* and writes no state, and apart from a reconfiguration the channel's
\* attribute changes only when a message on its state topic is handled
C2_NoEchoWithStateTopic ==
    [][NoEcho(~config.optimistic) /\ OnlyByMessage]_vars

\* C2 witness: async_set_preset_mode has returned with a preset state topic
\* and no global optimistic flag, and the attribute is not the commanded mode
C2_Witness ==
    /\ last.op = "async_set_preset_mode"
    /\ last.outcome = "returned"
    /\ entity.topic.preset_mode_state_topic # None
    /\ ~config.optimistic
    /\ last.writes = 0
    /\ attr.preset_mode # last.preset_mode

\* the four flags are the global flag or the absence of the state topic
FlagsFromConfig ==
    /\ entity.optimistic = (config.optimistic \/ config.state_topic = None)
    /\ entity.optimistic_oscillation
         = (config.optimistic \/ config.oscillation_state_topic = None)
    /\ entity.optimistic_percentage
         = (config.optimistic \/ config.percentage_state_topic = None)
    /\ entity.optimistic_preset_mode
         = (config.optimistic \/ config.preset_mode_state_topic = None)

Count(flag) == IF flag THEN 1 ELSE 0

C4_InvalidPresetMode ==
    [][\A m \in ArgPresetModes :
          (SetPresetMode(m) /\ ~InSeq(m, entity.preset_modes))
          => /\ last'.outcome = "NotValidPresetModeError"
             /\ last'.trace = << >>
             /\ last'.writes = 0
             /\ attr' = attr
             /\ call' = Idle]_vars

\* C4 witness: async_set_preset_mode("turbo") has raised on an optimistic
\* preset channel whose modes are eco and auto
C4_Witness ==
    /\ last.op = "async_set_preset_mode"
    /\ last.preset_mode = Some(S_turbo)
    /\ last.outcome = "NotValidPresetModeError"
    /\ last.trace = << >>
    /\ entity.preset_modes = <<S_eco, S_auto>>
    /\ entity.optimistic_preset_mode
    /\ attr.preset_mode # Some(S_turbo)

\* the order of the events of one async_turn_on
TurnOnOrder(trace) ==
    LET Pubs(topic) == { i \in 1..Len(trace) :
                           trace[i].ev = "publish" /\ trace[i].key = topic }
        AllPubs == { i \in 1..Len(trace) : trace[i].ev = "publish" }
    IN  /\ Pubs(Some("command")) = {1}
        /\ \A i \in Pubs(Some("percentage_command")) :
              \A j \in Pubs(Some("preset_mode_command")) : i < j
        /\ \A i \in 1..Len(trace) :
              trace[i] = SetAttr("is_on") => \A j \in AllPubs : j < i

\* C10: in every async_turn_on the on payload is published on the command
\* topic first, a percentage publish comes before a preset mode publish, and
\* the optimistic update of is_on comes after every publish
C10_TurnOnOrder ==
    /\ call.op = "async_turn_on" => TurnOnOrder(call.trace)
    /\ last.op = "async_turn_on" => TurnOnOrder(last.trace)

\* C10 witness: an async_turn_on with both arguments has returned after
\* three publishes and the optimistic update
C10_Witness ==
    /\ last.op = "async_turn_on"
    /\ last.outcome = "returned"
    /\ Cardinality({ i \in 1..Len(last.trace) : last.trace[i].ev = "publish" }) = 3
    /\ Sets(last.trace, "is_on") = 1
    /\ attr.is_on = Some(TRUE)

(***************************************************************************)
(* Properties of the message callbacks (specification SpecInbound).        *)
(***************************************************************************)
\* the payload is an integer that maps into 0..100 over the speed range
ValidSpeed(self, payload) ==
    /\ py_int(payload).ok
    /\ ranged_value_to_percentage(self.speed_range, py_int(payload).val) \in 0..100

\* C5: a percentage payload that is not empty, is not the reset payload and
\* is no integer or maps outside 0..100 leaves the percentage as it was (it
\* is not clamped) and requests no state write
C5_MalformedPercentage ==
    (/\ last.op = "percentage_state_topic"
     /\ last.payload # EMPTY
     /\ last.payload # entity.payload.PERCENTAGE_RESET
     /\ ~ValidSpeed(entity, last.payload))
    => /\ attr.percentage = last.before.percentage
       /\ last.writes = 0

\* C5 witness: "101" was received over the speed range (1, 100) while the
\* percentage was 2, and it still is
C5_Witness ==
    /\ last.op = "percentage_state_topic"
    /\ last.payload = <<"1", "0", "1">>
    /\ entity.speed_range = <<1, 100>>
    /\ last.before.percentage = Some(2)
    /\ attr.percentage = Some(2)
    /\ last.writes = 0

\* C6 as stated: a percentage payload equal to the percentage reset payload
\* sets the percentage to None and a preset mode payload equal to the preset
\* mode reset payload sets the preset mode to None, whatever the value was,
\* and each requests a state write
C6_Original ==
    /\ (/\ last.op = "percentage_state_topic"
        /\ last.payload = entity.payload.PERCENTAGE_RESET)
       => attr.percentage = None /\ last.writes = 1
    /\ (/\ last.op = "preset_mode_state_topic"
        /\ last.payload = entity.payload.PRESET_MODE_RESET)
       => attr.preset_mode = None /\ last.writes = 1

\* C6 amended: the same, for a percentage reset payload that is not the
\* empty string (the preset mode reset payload may be empty)
C6_ResetPayloads ==
    /\ (/\ last.op = "percentage_state_topic"
        /\ last.payload = entity.payload.PERCENTAGE_RESET
        /\ last.payload # EMPTY)
       => attr.percentage = None /\ last.writes = 1
    /\ (/\ last.op = "preset_mode_state_topic"
        /\ last.payload = entity.payload.PRESET_MODE_RESET)
       => attr.preset_mode = None /\ last.writes = 1

\* C6 witness: the empty preset mode reset payload was received while a
\* preset mode was set, and the preset mode is None
C6_Witness ==
    /\ last.op = "preset_mode_state_topic"
    /\ last.payload = entity.payload.PRESET_MODE_RESET
    /\ last.payload = EMPTY
    /\ last.before.preset_mode # None
    /\ attr.preset_mode = None
    /\ last.writes = 1

\* the payloads C7 calls accepted: those that set the attribute
Accepted(self, key, payload) ==
    CASE key = "state_topic" ->
           /\ payload # EMPTY
           /\ payload \in {self.payload.STATE_ON, self.payload.STATE_OFF,
                           PAYLOAD_NONE}
      [] key = "percentage_state_topic" ->
           /\ payload # EMPTY
           /\ payload = self.payload.PERCENTAGE_RESET \/ ValidSpeed(self, payload)
      [] key = "preset_mode_state_topic" ->
           \/ payload = self.payload.PRESET_MODE_RESET
           \/ payload # EMPTY /\ InSeq(payload, self.preset_modes)
      [] key = "oscillation_state_topic" ->
           /\ payload # EMPTY
           /\ payload \in {self.payload.OSCILLATE_ON_PAYLOAD,
                           self.payload.OSCILLATE_OFF_PAYLOAD}

Keys ==
    {"state_topic", "percentage_state_topic", "preset_mode_state_topic",
     "oscillation_state_topic"}

C8_Idempotent ==
    (last.op \in Keys /\ last.repeat = 2 /\ last.writes_before = 1)
    => /\ attr = last.before
       /\ last.writes + last.writes_before = 2

\* C8 witness: " 2" was delivered twice in a row on the percentage state
\* topic; the percentage is 2 and both deliveries requested a state write
C8_Witness ==
    /\ last.op = "percentage_state_topic"
    /\ last.payload = <<" ", "2">>
    /\ last.repeat = 2
    /\ last.writes_before = 1
    /\ last.writes = 1
    /\ attr.percentage = Some(2)
    /\ attr = last.before

\* the scenario of C9: preset modes eco and auto, reset payload "None"
C9_Scenario ==
    (/\ last.op = "preset_mode_state_topic"
     /\ entity.preset_modes = <<S_eco, S_auto>>
     /\ entity.payload.PRESET_MODE_RESET = S_None)
    => /\ last.payload = S_None => attr.preset_mode = None /\ last.writes = 1
       /\ last.payload = S_turbo => attr = last.before /\ last.writes = 0

\* what C9 says of the payloads that are not empty
C9_NonEmpty ==
    last.op = "preset_mode_state_topic" =>
        /\ (/\ last.payload # EMPTY
            /\ last.payload # entity.payload.PRESET_MODE_RESET
            /\ ~InSeq(last.payload, entity.preset_modes))
           => attr.preset_mode = last.before.preset_mode /\ last.writes = 0
        /\ (last.payload # EMPTY /\ InSeq(last.payload, entity.preset_modes))
           => attr.preset_mode = Some(last.payload)

\* C9 as stated: a preset mode payload that is not empty, not the reset
\* payload and not one of the preset modes is rejected, one of the preset
\* modes becomes the preset mode, and an empty payload changes nothing
C9_Original ==
    /\ C9_NonEmpty
    /\ C9_Scenario
    /\ (last.op = "preset_mode_state_topic" /\ last.payload = EMPTY)
       => attr = last.before /\ last.writes = 0

\* C9 amended: the same, but an empty payload changes nothing only when the
\* preset mode reset payload is not the empty string; when it is, the empty
\* payload is the reset payload and sets the preset mode to None
C9_PresetModeDecoding ==
    /\ C9_NonEmpty
    /\ C9_Scenario
    /\ (/\ last.op = "preset_mode_state_topic"
        /\ last.payload = EMPTY
        /\ entity.payload.PRESET_MODE_RESET # EMPTY)
       => attr = last.before /\ last.writes = 0

\* C9 witness: with preset modes eco and auto, "turbo" was received while the
\* preset mode was eco, and it still is
C9_Witness ==
    /\ last.op = "preset_mode_state_topic"
    /\ last.payload = S_turbo
    /\ entity.preset_modes = <<S_eco, S_auto>>
    /\ entity.payload.PRESET_MODE_RESET = S_None
    /\ last.before.preset_mode = Some(S_eco)
    /\ attr.preset_mode = Some(S_eco)
    /\ last.writes = 0

(***************************************************************************)
(* Further properties of the command coroutines and of reconfiguration     *)
(* (specification Spec).                                                   *)
(***************************************************************************)
\* how often trace publishes on topic
Publishes(trace, topic) ==
    Cardinality({ i \in 1..Len(trace) :
                    trace[i].ev = "publish" /\ trace[i].key = topic })

\* what an async_turn_on that has returned has done, where given says which
\* arguments count as given
TurnOnNested(given_percentage, given_preset_mode) ==
    (last.op = "async_turn_on" /\ last.outcome = "returned") =>
        /\ Publishes(last.trace, Some("percentage_command"))
             = Count(given_percentage)
        /\ Publishes(last.trace, Some("preset_mode_command"))
             = Count(given_preset_mode)
        /\ entity.optimistic
           => attr.is_on = Some(TRUE) /\ EchoedOnce(last.trace, "is_on")

\* C11: an async_turn_on that returns has published one percentage command
\* when a percentage argument (any of 0..100) was given and none otherwise,
\* one preset mode command when a preset mode argument was given and none
\* otherwise, and with an optimistic power channel is_on is True and the
\* state was written
C11_TurnOnNested == TurnOnNested(last.percentage # None, last.preset_mode # None)

\* C11, as far as it holds: the same when "given" is python truthiness (a
\* percentage other than 0, a preset mode other than the empty string)
C11_TruthyArguments ==
    TurnOnNested(Truthy(last.percentage, 0), Truthy(last.preset_mode, EMPTY))

\* C12 as stated: an operation whose publish has failed has set no state
\* attribute and written no state from its call on
C12_Original ==
    last.outcome = "HomeAssistantError" =>
        /\ call = Idle
        /\ \A i \in 1..Len(last.trace) : last.trace[i].ev = "publish"

\* what is left of an operation whose publish has failed
AfterFailure ==
    last.outcome = "HomeAssistantError" =>
        /\ call = Idle
        /\ last.writes = 0
        /\ last.trace # << >>
        /\ last.trace[Len(last.trace)].ev = "publish"
        /\ \A i, j \in 1..Len(last.trace) :
              (/\ last.trace[i].ev = "publish"
               /\ last.trace[j].ev = "publish"
               /\ last.trace[i].key = last.trace[j].key) => i = j
        /\ last.op # "async_turn_on" => Len(last.trace) = 1
        /\ Sets(last.trace, "is_on") = 0
        /\ Sets(last.trace, "oscillating") = 0
        /\ Sets(last.trace, "percentage")
             <= Publishes(SubSeq(last.trace, 1, Len(last.trace) - 1),
                          Some("percentage_command"))
        /\ Sets(last.trace, "preset_mode") = 0

\* C12 amended: when a publish fails the exception reaches the caller, the
\* operation ends there without publishing anything again, and the failing
\* step changes no state attribute and writes no state; the four single
\* operations have then changed nothing at all, while an async_turn_on keeps
\* the optimistic update (and its state write) of a nested
\* async_set_percentage whose own publish had succeeded before, and does not
\* set is_on
C12_PublishFailure ==
    /\ []AfterFailure
    /\ [][PublishFailed =>
            /\ attr' = attr
            /\ call' = Idle
            /\ last'.outcome = "HomeAssistantError"
            /\ last'.trace = call.trace]_vars

\* C12 witness: the preset mode publish of an async_turn_on(42, "eco") has
\* failed on optimistic channels; the percentage is 42 as set by the nested
\* call, is_on has not been set
C12_Witness ==
    /\ last.op = "async_turn_on"
    /\ last.outcome = "HomeAssistantError"
    /\ last.percentage = Some(42)
    /\ last.preset_mode = Some(S_eco)
    /\ Publishes(last.trace, Some("preset_mode_command")) = 1
    /\ EchoedOnce(last.trace, "percentage")
    /\ attr.percentage = Some(42)
    /\ entity.optimistic
    /\ attr.is_on # Some(TRUE)

\* C17: assumed_state is True exactly when at least one of the four channels
\* is optimistic
C17_AssumedState ==
    assumed_state(entity)
      = (\/ entity.optimistic
         \/ entity.optimistic_percentage
         \/ entity.optimistic_preset_mode
         \/ entity.optimistic_oscillation)

\* C18: the preset mode is None or one of the preset modes of the
\* configuration in force
C18_PresetModeMember ==
    attr.preset_mode = None \/ InSeq(attr.preset_mode[1], entity.preset_modes)

\* the steps that configure the entity
Configured == last.op \in {"__init__", "discovery_update"}

\* outside a reconfiguration a state attribute changes only in the callback
\* of its state topic or in the optimistic update of a command
WrittenByHandlers ==
    config' = config =>
        /\ attr'.is_on # attr.is_on
           => \/ last'.op = "state_topic"
              \/ PublishDone /\ entity.optimistic /\ Sets(NewEvents, "is_on") = 1
        /\ attr'.percentage # attr.percentage
           => \/ last'.op = "percentage_state_topic"
              \/ /\ PublishDone
                 /\ entity.optimistic_percentage
                 /\ Sets(NewEvents, "percentage") = 1
        /\ attr'.preset_mode # attr.preset_mode
           => \/ last'.op = "preset_mode_state_topic"
              \/ /\ PublishDone
                 /\ entity.optimistic_preset_mode
                 /\ Sets(NewEvents, "preset_mode") = 1
        /\ attr'.oscillating # attr.oscillating
           => \/ last'.op = "oscillation_state_topic"
              \/ /\ PublishDone
                 /\ entity.optimistic_oscillation
                 /\ Sets(NewEvents, "oscillating") = 1

\* C20 as stated: after every (re)configuration is_on, percentage and preset
\* mode are None and oscillating is None (or False), and outside a
\* reconfiguration the attributes change only in the callbacks and the
\* optimistic updates
C20_Original ==
    /\ [](Configured =>
            /\ attr.is_on = None
            /\ attr.percentage = None
            /\ attr.preset_mode = None
            /\ attr.oscillating \in {None, Some(FALSE)})
    /\ [][WrittenByHandlers]_vars

\* C20 amended: a (re)configuration sets percentage and preset mode to None
\* and oscillating to False for exactly the channels that have a state topic
\* in the new configuration; is_on and the attributes of the channels without
\* a state topic keep the values they had; outside a reconfiguration the
\* attributes change only in the callbacks and the optimistic updates
C20_ResetOnConfigure ==
    /\ [](Configured =>
            /\ entity.topic.percentage_state_topic # None
               => attr.percentage = None
            /\ entity.topic.preset_mode_state_topic # None
               => attr.preset_mode = None
            /\ entity.topic.oscillation_state_topic # None
               => attr.oscillating = Some(FALSE))
    /\ [][config' # config =>
            /\ attr'.is_on = attr.is_on
            /\ entity'.topic.percentage_state_topic = None
               => attr'.percentage = attr.percentage
            /\ entity'.topic.preset_mode_state_topic = None
               => attr'.preset_mode = attr.preset_mode
            /\ entity'.topic.oscillation_state_topic = None
               => attr'.oscillating = attr.oscillating]_vars
    /\ [][WrittenByHandlers]_vars

\* C20 witness: the entity has been reconfigured while is_on and the preset
\* mode were set; the new configuration has a percentage state topic and no
\* preset mode state topic: the percentage is None, is_on and the preset mode
\* are still set
C20_Witness ==
    /\ last.op = "discovery_update"
    /\ entity.topic.percentage_state_topic # None
    /\ entity.topic.preset_mode_state_topic = None
    /\ attr.percentage = None
    /\ attr.is_on = Some(TRUE)
    /\ attr.preset_mode # None

(***************************************************************************)
(* Validation of a discovery payload by DISCOVERY_SCHEMA.  A raw payload   *)
(* gives the speed range, and may give the preset modes, the preset mode   *)
(* command topic and the preset mode reset payload; everything else is     *)
(* left to its default.  Each validator yields "ok" or the error it        *)
(* raises.                                                                 *)
(***************************************************************************)
\* largest speed offered in a raw payload
MaxSpeed == 3

\* cv.positive_int
positive_int(value) == value >= 0

\* faulty variant of valid_speed_range_configuration: an empty range passes
valid_speed_range_configuration_Empty(cfg) ==
    IF cfg.speed_range_min = 0 THEN "speed_range_min must be > 0"
    ELSE IF cfg.speed_range_min > cfg.speed_range_max
    THEN "speed_range_max must be > speed_range_min"
    ELSE "ok"

valid_speed_range_configuration(cfg) ==
    IF cfg.speed_range_min = 0 THEN "speed_range_min must be > 0"
    ELSE IF cfg.speed_range_min >= cfg.speed_range_max
    THEN "speed_range_max must be > speed_range_min"
    ELSE "ok"

\* faulty variant of valid_preset_mode_configuration: the percentage reset
\* payload is looked up
valid_preset_mode_configuration_Percentage(cfg) ==
    IF InSeq(cfg.payload_reset_percentage, cfg.preset_modes)
    THEN "preset_modes must not contain payload_reset_preset_mode"
    ELSE "ok"

valid_preset_mode_configuration(cfg) ==
    IF InSeq(cfg.payload_reset_preset_mode, cfg.preset_modes)
    THEN "preset_modes must not contain payload_reset_preset_mode"
    ELSE "ok"

\* _PLATFORM_SCHEMA_BASE on the keys of a raw payload: the two speeds are
\* positive_int, preset_mode_command_topic and preset_modes are given
\* together or not at all, preset_modes defaults to []
PLATFORM_SCHEMA_BASE(raw) ==
    IF ~positive_int(raw.speed_range_min) \/ ~positive_int(raw.speed_range_max)
    THEN [error |-> "value must be at least 0", config |-> DefaultConfig]
    ELSE IF (raw.preset_mode_command_topic = None) # (raw.preset_modes = None)
    THEN [error |-> "some but not all values in the same group of inclusion",
          config |-> DefaultConfig]
    ELSE [error |-> "ok",
          config |->
            [DefaultConfig EXCEPT
               !.speed_range_min = raw.speed_range_min,
               !.speed_range_max = raw.speed_range_max,
               !.preset_mode_command_topic = raw.preset_mode_command_topic,
               !.preset_modes = IF raw.preset_modes = None THEN << >>
                                ELSE raw.preset_modes[1],
               !.payload_reset_preset_mode = raw.payload_reset_preset_mode]]

\* DISCOVERY_SCHEMA: vol.All of the schema and the two validators, in order
DISCOVERY_SCHEMA(raw) ==
    LET base == PLATFORM_SCHEMA_BASE(raw)
        speed == valid_speed_range_configuration(base.config)
        preset == valid_preset_mode_configuration(base.config)
    IN  IF base.error # "ok" THEN base
        ELSE IF speed # "ok" THEN [base EXCEPT !.error = speed]
        ELSE [base EXCEPT !.error = preset]

\* the raw payloads offered
RawConfigs ==
    [speed_range_min : -1..MaxSpeed,
     speed_range_max : -1..MaxSpeed,
     preset_mode_command_topic : {None, Some("preset_mode_command")},
     preset_modes : {None, Some(<<S_eco, S_auto>>), Some(<<S_None, S_eco>>)},
     payload_reset_preset_mode : {S_None, S_auto}]

\* a discovery payload arrives: when it validates the entity is
\* reconfigured with it, otherwise it is dropped
Discovery(raw) ==
    LET r == DISCOVERY_SCHEMA(raw)
    IN  /\ last' = [op |-> "discovery", raw |-> raw, outcome |-> r.error]
        /\ IF r.error = "ok"
           THEN /\ config' = r.config
                /\ entity' = setup_from_config(r.config)
                /\ attr' = prepare_subscribe_topics(entity', attr)
           ELSE UNCHANGED <<config, entity, attr>>
        /\ UNCHANGED call

InitConfigure ==
    /\ config = DefaultConfig
    /\ entity = setup_from_config(config)
    /\ attr = prepare_subscribe_topics(entity, InitialAttr)
    /\ call = Idle
    /\ last = [op |-> "__init__", raw |-> None, outcome |-> "ok"]

NextConfigure == \E raw \in RawConfigs : Discovery(raw)

SpecConfigure == InitConfigure /\ [][NextConfigure]_vars

(***************************************************************************)
(* Properties of the validation (specification SpecConfigure).             *)
(***************************************************************************)
SpeedErrors ==
    {"value must be at least 0", "speed_range_min must be > 0",
     "speed_range_max must be > speed_range_min"}

PresetErrors ==
    {"some but not all values in the same group of inclusion",
     "preset_modes must not contain payload_reset_preset_mode"}

\* the preset mode reset payload of a raw payload is one of its preset modes
Collision(raw) ==
    raw.preset_modes # None
    /\ InSeq(raw.payload_reset_preset_mode, raw.preset_modes[1])

\* C13: a payload whose speeds are integers with 0 < min < max is not
\* refused for its speeds (it is accepted, with that speed range, unless its
\* preset modes are refused), and a payload with any other pair of speeds
\* (min <= 0 or min >= max) is refused
C13_SpeedRange ==
    last.op = "discovery" =>
        LET min == last.raw.speed_range_min
            max == last.raw.speed_range_max
        IN  IF 0 < min /\ min < max
            THEN /\ last.outcome \in {"ok"} \cup PresetErrors
                 /\ last.outcome = "ok" => entity.speed_range = <<min, max>>
            ELSE last.outcome \in SpeedErrors \cup PresetErrors

\* C13 witness: the speeds (2, 3) have been accepted
C13_Witness ==
    /\ last.op = "discovery"
    /\ last.raw.speed_range_min = 2
    /\ last.raw.speed_range_max = 3
    /\ last.outcome = "ok"
    /\ entity.speed_range = <<2, 3>>

\* C14: a payload whose preset mode reset payload is one of its preset modes
\* is refused; a payload without such a collision is not refused by
\* valid_preset_mode_configuration (it is accepted unless the schema or the
\* speed range refuses it); and the preset modes of the configuration in
\* force never contain its preset mode reset payload
C14_PresetCollision ==
    /\ ~InSeq(entity.payload.PRESET_MODE_RESET, entity.preset_modes)
    /\ last.op = "discovery" =>
          /\ Collision(last.raw) => last.outcome # "ok"
          /\ (last.outcome
                = "preset_modes must not contain payload_reset_preset_mode")
             => Collision(last.raw)
          /\ (/\ ~Collision(last.raw)
              /\ valid_speed_range_configuration(last.raw) = "ok"
              /\ PLATFORM_SCHEMA_BASE(last.raw).error = "ok")
             => last.outcome = "ok"

\* C14 witness: a payload with the preset modes eco and auto, the reset
\* payload "auto" and a valid speed range has been refused for the collision
C14_Witness ==
    /\ last.op = "discovery"
    /\ last.raw.preset_modes = Some(<<S_eco, S_auto>>)
    /\ last.raw.payload_reset_preset_mode = S_auto
    /\ last.raw.speed_range_min = 1
    /\ last.raw.speed_range_max = 3
    /\ last.outcome = "preset_modes must not contain payload_reset_preset_mode"

(***************************************************************************)
(* The percentage channel on its own: configurations with several speed    *)
(* ranges, speeds received on the percentage state topic, and the commands *)
(* that take a percentage.                                                 *)
(***************************************************************************)
SpeedConfigs ==
    { [DefaultConfig EXCEPT !.percentage_state_topic = None],
      [DefaultConfig EXCEPT !.speed_range_min = 1, !.speed_range_max = 3],
      [DefaultConfig EXCEPT !.speed_range_min = 5, !.speed_range_max = 10,
                            !.percentage_state_topic = None],
      [DefaultConfig EXCEPT !.speed_range_min = 1, !.speed_range_max = 200,
                            !.optimistic = TRUE] }

\* the percentages of the fan entity
Percent == 0..100

\* the percentages the commands are called with
SpeedArgs == {0, 1, 34, 42, 67, 99, 100}

\* the payloads received on the percentage state topic
SpeedPayloads ==
    { py_str(n) : n \in {-1, 0, 1, 2, 3, 4, 5, 7, 10, 11, 100, 101, 200, 201} }
      \cup {EMPTY, S_None, <<"4", "x">>}

InitPercentage ==
    /\ config \in SpeedConfigs
    /\ entity = setup_from_config(config)
    /\ attr = prepare_subscribe_topics(entity, InitialAttr)
    /\ call = Idle
    /\ last = Step("__init__", Idle, "returned", 0, << >>)

NextPercentage ==
    \/ \E cfg \in SpeedConfigs : Reconfigure(cfg)
    \/ \E payload \in SpeedPayloads : Message("percentage_state_topic", payload)
    \/ \E percentage \in SpeedArgs : SetPercentage(percentage)
    \/ \E percentage \in SpeedArgs : TurnOn(Some(percentage), None)
    \/ PublishDone
    \/ PublishFailed

SpecPercentage == InitPercentage /\ [][NextPercentage]_vars

(***************************************************************************)
(* Properties of the percentage channel (specification SpecPercentage).    *)
(***************************************************************************)
\* the speed async_set_percentage(p) publishes, handed to the callback of
\* the percentage state topic, gives a percentage q in 0..100 with
\* p <= q < p + 100 / states: less than one step of the speed range above p
\* (and p itself when the range has 100 states or more)
RoundTrip(self, payload, p) ==
    LET r == percentage_received(self, InitialAttr, payload)
        q == r.attr.percentage
    IN  /\ r.writes = 1
        /\ q # None
        /\ q[1] \in Percent
        /\ p <= q[1]
        /\ (q[1] - p) * states_in_range(self.speed_range) < 100

\* C15: for the speed range of every configuration set up and every
\* percentage p of 0..100, the speed that async_set_percentage(p) publishes
\* is accepted by the callback of the percentage state topic and gives a
\* percentage within one step of the speed range of p (one rounding unit:
\* not below p and less than 100 / states above it); the same for the speed
\* a pending command has published, under the configuration it was called
\* with
C15_RemapRoundTrip ==
    /\ Configured
       => \A p \in Percent :
             RoundTrip(entity, set_percentage_publish(entity, p).payload, p)
    /\ (last.op \in {"async_set_percentage", "async_turn_on"}
        /\ last.outcome = "suspended"
        /\ last.trace[Len(last.trace)].key = Some("percentage_command"))
       => RoundTrip(entity, last.trace[Len(last.trace)].payload,
                    last.percentage[1])

\* C15 witness: over the speed range (1, 3) async_set_percentage(42) has
\* published "2", which the callback turns into 66
C15_Witness ==
    /\ last.op = "async_set_percentage"
    /\ last.outcome = "suspended"
    /\ last.percentage = Some(42)
    /\ entity.speed_range = <<1, 3>>
    /\ last.trace = <<Publish(Some("percentage_command"), <<"2">>)>>
    /\ percentage_received(entity, attr, <<"2">>).attr.percentage = Some(66)

\* the configuration of C16
C16_Scenario ==
    /\ entity.speed_range = <<1, 100>>
    /\ ~config.optimistic
    /\ config.percentage_state_topic = None

\* C16: with the speed range (1, 100), no global optimistic flag and no
\* percentage state topic, async_set_percentage(p) publishes str(p) on the
\* percentage command topic and, when the publish is done, sets the
\* percentage to p and writes the state once, for every p of 0..100
C16_SetPercentage ==
    /\ [](C16_Scenario =>
            \A p \in Percent :
               /\ set_percentage_publish(entity, p)
                    = Publish(Some("percentage_command"), py_str(p))
               /\ set_percentage_finish(entity, attr, p)
                    = [attr |-> [attr EXCEPT !.percentage = Some(p)],
                       events |-> <<SetAttr("percentage"), WriteHaState>>])
    /\ [][\A p \in SpeedArgs :
            /\ (C16_Scenario /\ SetPercentage(p))
               => /\ last'.trace = <<Publish(Some("percentage_command"), py_str(p))>>
                  /\ call'.pc = "set_percentage"
            /\ (C16_Scenario /\ PublishDone /\ call.pc = "set_percentage")
               => /\ attr'.percentage = call.percentage
                  /\ last'.writes = 1
                  /\ EchoedOnce(NewEvents, "percentage")
                  /\ last'.outcome = "returned"]_vars

\* C16 witness: async_set_percentage(42) has returned in the configuration
\* of C16 after publishing "42", and the percentage is 42
C16_Witness ==
    /\ C16_Scenario
    /\ last.op = "async_set_percentage"
    /\ last.outcome = "returned"
    /\ last.percentage = Some(42)
    /\ last.trace[1] = Publish(Some("percentage_command"), <<"4", "2">>)
    /\ last.writes = 1
    /\ attr.percentage = Some(42)

\* C19: the percentage is None or an integer of 0..100
C19_PercentageRange ==
    attr.percentage = None \/ attr.percentage[1] \in Percent

\* C19 witness: a speed has been received over the speed range (1, 3) that
\* maps to the upper end of the scale, and the percentage is 100
C19_Witness ==
    /\ last.op = "percentage_state_topic"
    /\ entity.speed_range = <<1, 3>>
    /\ attr.percentage = Some(100)

\* the speed a publish event carries
Speed(event) == py_int(event.payload)

\* ev carries the integer ceil(p * (max - min + 1) / 100) + (min - 1) of the
\* configured speed range
RemappedSpeed(event, p) ==
    LET min == config.speed_range_min
        max == config.speed_range_max
    IN  /\ event.key = Some("percentage_command")
        /\ Speed(event).ok
        /\ Speed(event).val = ((p * (max - min + 1) + 99) \div 100) + (min - 1)

\* the speed of ev lies in the configured speed range
InSpeedRange(event) ==
    Speed(event).val \in config.speed_range_min..config.speed_range_max

\* C25 as stated: the speed published for every p of 0..100 is
\* ceil(p * (max - min + 1) / 100) + (min - 1) and lies in min..max
C25_Original ==
    Configured
    => \A p \in Percent :
          /\ RemappedSpeed(set_percentage_publish(entity, p), p)
          /\ InSpeedRange(set_percentage_publish(entity, p))

\* C25: for the speed range of every configuration set up and every p of
\* 0..100 the speed async_set_percentage(p) publishes is the integer
\* ceil(p * (max - min + 1) / 100) + (min - 1); it lies in min..max when p is
\* 1..100 and is min - 1, just below the range, when p is 0; the same holds
\* for the speed a command has just published
C25_NativeSpeed ==
    /\ Configured
       => \A p \in Percent :
             LET event == set_percentage_publish(entity, p)
             IN  /\ RemappedSpeed(event, p)
                 /\ p >= 1 => InSpeedRange(event)
                 /\ p = 0 => Speed(event).val = config.speed_range_min - 1
    /\ (last.op = "async_set_percentage" /\ last.outcome = "suspended")
       => /\ Len(last.trace) = 1
          /\ RemappedSpeed(last.trace[1], last.percentage[1])
          /\ InSpeedRange(last.trace[1]) <=> last.percentage[1] >= 1

\* C25 witness: over the speed range (5, 10) async_set_percentage(42) has
\* published "7" and async_set_percentage(0) would publish "4"
C25_Witness ==
    /\ last.op = "async_set_percentage"
    /\ last.outcome = "suspended"
    /\ last.percentage = Some(42)
    /\ config.speed_range_min = 5
    /\ config.speed_range_max = 10
    /\ last.trace = <<Publish(Some("percentage_command"), <<"7">>)>>
    /\ set_percentage_publish(entity, 0).payload = <<"4">>

(***************************************************************************)
(* Further properties of the message callbacks (specification              *)
(* SpecInbound).                                                           *)
(***************************************************************************)
\* C23: on the state topic a payload equal to the on payload sets is_on to
\* True, one equal to the off payload sets it to False, "None" (when it is
\* neither of the two) sets it to None, and an empty or any other payload
\* leaves it as it was; on the oscillation state topic the oscillation on
\* and off payloads set oscillating to True and False and every other
\* payload, "None" too, leaves it as it was
C23_PowerDecoding ==
    /\ last.op = "state_topic" =>
          attr.is_on =
             IF last.payload = EMPTY THEN last.before.is_on
             ELSE IF last.payload = entity.payload.STATE_ON THEN Some(TRUE)
             ELSE IF last.payload = entity.payload.STATE_OFF THEN Some(FALSE)
             ELSE IF last.payload = PAYLOAD_NONE THEN None
             ELSE last.before.is_on
    /\ last.op = "oscillation_state_topic" =>
          attr.oscillating =
             IF last.payload = EMPTY THEN last.before.oscillating
             ELSE IF last.payload = entity.payload.OSCILLATE_ON_PAYLOAD
             THEN Some(TRUE)
             ELSE IF last.payload = entity.payload.OSCILLATE_OFF_PAYLOAD
             THEN Some(FALSE)
             ELSE last.before.oscillating

\* C23 witness: the on payload is configured as "None"; "None" was received
\* on the state topic while is_on was False, and is_on is True
C23_Witness ==
    /\ last.op = "state_topic"
    /\ entity.payload.STATE_ON = PAYLOAD_NONE
    /\ last.payload = PAYLOAD_NONE
    /\ last.before.is_on = Some(FALSE)
    /\ attr.is_on = Some(TRUE)

(***************************************************************************)
(* Further properties of the commands (specification Spec).                *)
(***************************************************************************)
\* an async_turn_on whose preset mode argument counts as given has ended
\* without a failed publish and without publishing the preset mode, and the
\* argument is not one of the preset modes
InvalidPresetEnded(given_preset_mode) ==
    /\ last.op = "async_turn_on"
    /\ last.outcome \notin {"suspended", "HomeAssistantError"}
    /\ given_preset_mode
    /\ Publishes(last.trace, Some("preset_mode_command")) = 0
    /\ ~valid_preset_mode(entity, last.preset_mode[1])

\* how async_turn_on ends on a preset mode that is not one of the preset
\* modes, where given says which arguments count as given
InvalidPreset(given_percentage, given_preset_mode) ==
    /\ InvalidPresetEnded(given_preset_mode)
       => last.outcome = "NotValidPresetModeError"
    /\ (last.op = "async_turn_on" /\ last.outcome = "NotValidPresetModeError")
       => /\ call = Idle
          /\ given_preset_mode
          /\ ~valid_preset_mode(entity, last.preset_mode[1])
          /\ last.trace[1].ev = "publish"
          /\ last.trace[1].key = Some("command")
          /\ Publishes(last.trace, Some("command")) = 1
          /\ Publishes(last.trace, Some("percentage_command"))
               = Count(given_percentage)
          /\ Publishes(last.trace, Some("preset_mode_command")) = 0
          /\ Sets(last.trace, "is_on") = 0
          /\ Sets(last.trace, "preset_mode") = 0
          /\ (given_percentage /\ entity.optimistic_percentage)
             => /\ EchoedOnce(last.trace, "percentage")
                /\ attr.percentage = last.percentage
          /\ last.writes = Sets(last.trace, "percentage")

\* C26: an async_turn_on with a preset mode argument that is not one of the
\* preset modes raises NotValidPresetModeError after it has published the on
\* payload and, when a percentage argument was given, the percentage; is_on
\* is not set and no state is written for it even when the power channel is
\* optimistic, and a percentage echoed on an optimistic percentage channel
\* stays
C26_InvalidPreset == InvalidPreset(last.percentage # None, last.preset_mode # None)

\* C26, as far as it holds: the same when "given" is python truthiness
C26_TruthyArguments ==
    InvalidPreset(Truthy(last.percentage, 0), Truthy(last.preset_mode, EMPTY))

\* async_turn_on(42, "turbo") has raised NotValidPresetModeError with both
\* channels optimistic: the percentage is 42 and is_on was not set
C26_Raised ==
    /\ InvalidPresetEnded(last.preset_mode # None)
    /\ last.outcome = "NotValidPresetModeError"
    /\ last.percentage = Some(42)
    /\ entity.optimistic
    /\ entity.optimistic_percentage
    /\ attr.percentage = Some(42)
    /\ attr.is_on # Some(TRUE)

\* C28: a command that has returned has acted under one configuration from
\* its call to its end, whatever reconfiguration came while its publish was
\* pending: for an async_set_percentage there is a configuration under which
\* the speed it published is the one of its argument and whose percentage
\* flag says whether it has set the percentage; for an async_turn_on with a
\* percentage there is a configuration under which both the on payload and
\* the speed it published are the ones it would publish
C28_BoundToInvocation ==
    /\ (last.op = "async_set_percentage" /\ last.outcome = "returned")
       => \E cfg \in Configs :
             LET self == setup_from_config(cfg)
             IN  /\ last.trace[1] = set_percentage_publish(self, last.percentage[1])
                 /\ Sets(last.trace, "percentage") = 1 <=> self.optimistic_percentage
    /\ (/\ last.op = "async_turn_on"
        /\ last.outcome = "returned"
        /\ Truthy(last.percentage, 0))
       => \E cfg \in Configs :
             LET self == setup_from_config(cfg)
             IN  /\ last.trace[1] = turn_on_start(self, attr).events[1]
                 /\ last.trace[2] = set_percentage_publish(self, last.percentage[1])

\* the step leaves every state attribute but the named one as it was
OnlyField(name) ==
    \A other \in {"is_on", "percentage", "preset_mode", "oscillating"} \ {name} :
       attr'[other] = attr[other]

\* C24: the callback of a state topic changes no state attribute but that of
\* its own channel, every step of async_turn_off, async_set_percentage,
\* async_set_preset_mode and async_oscillate changes none but that of its own
\* channel, and every step of an async_turn_on without arguments changes
\* none but is_on
C24_Frame ==
    [][/\ last'.op \in {"state_topic", "async_turn_off"} => OnlyField("is_on")
       /\ last'.op \in {"percentage_state_topic", "async_set_percentage"}
          => OnlyField("percentage")
       /\ last'.op \in {"preset_mode_state_topic", "async_set_preset_mode"}
          => OnlyField("preset_mode")
       /\ last'.op \in {"oscillation_state_topic", "async_oscillate"}
          => OnlyField("oscillating")
       /\ (/\ last'.op = "async_turn_on"
           /\ last'.percentage = None
           /\ last'.preset_mode = None)
          => OnlyField("is_on")]_vars

\* C24 witness: async_set_percentage(42) has returned and set the
\* percentage while the fan is off, in a preset mode and oscillating
C24_Witness ==
    /\ last.op = "async_set_percentage"
    /\ last.outcome = "returned"
    /\ attr.percentage = Some(42)
    /\ attr.is_on = Some(FALSE)
    /\ attr.preset_mode = Some(S_eco)
    /\ attr.oscillating = Some(TRUE)

\* a command waiting for its publish has not made the optimistic update
\* that follows that publish
NoEchoWhilePending ==
    /\ call.pc \in {"turn_on.state", "turn_off", "set_percentage",
                    "set_preset_mode", "oscillate"}
       => Len(call.trace) = 1 /\ call.trace[1].ev = "publish"
    /\ call.pc # "idle"
       => /\ call.trace[Len(call.trace)].ev = "publish"
          /\ Sets(call.trace, "is_on") = 0
    /\ call.pc = "turn_on.percentage" => Sets(call.trace, "percentage") = 0
    /\ call.pc = "turn_on.preset_mode" => Sets(call.trace, "preset_mode") = 0

\* a command that has returned on an optimistic channel leaves the commanded
\* value, whatever was received while its publish was pending
EchoWins ==
    last.outcome = "returned" =>
        /\ (last.op = "async_turn_on" /\ entity.optimistic)
           => attr.is_on = Some(TRUE)
        /\ (last.op = "async_turn_off" /\ entity.optimistic)
           => attr.is_on = Some(FALSE)
        /\ (last.op = "async_set_percentage" /\ entity.optimistic_percentage)
           => attr.percentage = last.percentage
        /\ (last.op = "async_set_preset_mode" /\ entity.optimistic_preset_mode)
           => attr.preset_mode = last.preset_mode
        /\ (last.op = "async_oscillate" /\ entity.optimistic_oscillation)
           => attr.oscillating = last.oscillating

\* a message handled after a command has returned overwrites the echo, and a
\* message handled while a command waits leaves the command where it is
MessageWins ==
    /\ (/\ last.op = "async_turn_on"
        /\ last.outcome = "returned"
        /\ Message("state_topic", entity.payload.STATE_OFF))
       => attr'.is_on = Some(FALSE)
    /\ (/\ last.op = "async_turn_off"
        /\ last.outcome = "returned"
        /\ Message("state_topic", entity.payload.STATE_ON))
       => attr'.is_on = Some(TRUE)
    /\ (call.pc # "idle" /\ last'.op \in Keys) => call' = call

\* C27: a command makes its optimistic update only after its publish has
\* completed; when it returns on an optimistic channel (the optimistic
\* option set and a state topic configured included) the attribute holds
\* the commanded value, whatever the callback of the state topic has set
\* while the publish was pending; a message handled later overwrites it
\* again, and a callback that runs while a command waits does not move
\* the command
C27_LastWriterWins ==
    /\ [](NoEchoWhilePending /\ EchoWins)
    /\ [][MessageWins]_vars

\* C27 witness: with the optimistic option set and a state topic configured,
\* async_turn_off waits for its publish and the on payload has just been
\* received, so is_on is True; the return of async_turn_off will overwrite it
C27_Witness ==
    /\ entity.optimistic
    /\ entity.topic.state_topic # None
    /\ call.pc = "turn_off"
    /\ last.op = "state_topic"
    /\ attr.is_on = Some(TRUE)
    /\ turn_off_finish(entity, attr).attr.is_on = Some(FALSE)

(***************************************************************************)
(* The subscriptions of the entity.  A discovery update replaces the       *)
(* configuration, prepares the subscriptions of the new one and then waits *)
(* in _subscribe_topics; the subscriptions of the old configuration are    *)
(* gone from that point and those of the new one deliver once the wait is  *)
(* over.  call holds where the update stands and the prepared              *)
(* subscriptions; last holds the last step, with the state attributes      *)
(* before it.                                                              *)
(***************************************************************************)
SubscribeConfigs ==
    { DefaultConfig,
      [DefaultConfig EXCEPT !.state_topic = Some("state_b"),
                            !.payload_on = PAYLOAD_NONE],
      [DefaultConfig EXCEPT !.percentage_state_topic = Some("percentage_state_b"),
                            !.speed_range_min = 1, !.speed_range_max = 3],
      [DefaultConfig EXCEPT !.preset_mode_state_topic = None,
                            !.oscillation_state_topic = None,
                            !.preset_modes = <<S_auto, S_turbo>>],
      [DefaultConfig EXCEPT !.state_topic = None,
                            !.percentage_state_topic = None,
                            !.preset_mode_state_topic = Some("preset_mode_state_b"),
                            !.preset_modes = <<S_auto, S_turbo>>] }

\* the topics messages arrive on
Topics ==
    {"state", "state_b", "percentage_state", "percentage_state_b",
     "preset_mode_state", "preset_mode_state_b", "oscillation_state"}

\* the payloads that arrive
ArrivingPayloads == {ON, PAYLOAD_NONE, <<"2">>, S_turbo, S_osc_on}

Observed(op, topic, key, payload, dispatched, before) ==
    [op |-> op, topic |-> topic, key |-> key, payload |-> payload,
     dispatched |-> dispatched, before |-> before]

\* the entity after construction, waiting in _subscribe_topics
InitSubscribe ==
    /\ config \in SubscribeConfigs
    /\ entity = setup_from_config(config)
    /\ attr = prepare_subscribe_topics(entity, InitialAttr)
    /\ call = [pc |-> "subscribe", sub_state |-> sub_state(entity)]
    /\ last = Observed("__init__", "none", "none", EMPTY, FALSE, InitialAttr)

\* faulty variant of DiscoveryUpdate: the subscriptions of the old configuration
\* are kept and nothing is waited for
DiscoveryUpdate_KeepOld(cfg) ==
    /\ call.pc = "idle"
    /\ cfg # config
    /\ config' = cfg
    /\ entity' = setup_from_config(cfg)
    /\ attr' = prepare_subscribe_topics(entity', attr)
    /\ call' = [pc |-> "idle", sub_state |-> call.sub_state \cup sub_state(entity')]
    /\ last' = Observed("discovery_update", "none", "none", EMPTY, FALSE, attr)

\* discovery_update up to its wait in _subscribe_topics
DiscoveryUpdate(cfg) ==
    /\ call.pc = "idle"
    /\ cfg # config
    /\ config' = cfg
    /\ entity' = setup_from_config(cfg)
    /\ attr' = prepare_subscribe_topics(entity', attr)
    /\ call' = [pc |-> "subscribe", sub_state |-> sub_state(entity')]
    /\ last' = Observed("discovery_update", "none", "none", EMPTY, FALSE, attr)

\* _subscribe_topics returns: the prepared subscriptions deliver
Subscribed ==
    /\ call.pc = "subscribe"
    /\ call' = [call EXCEPT !.pc = "idle"]
    /\ last' = Observed("_subscribe_topics", "none", "none", EMPTY, FALSE, attr)
    /\ UNCHANGED <<config, entity, attr>>

\* a message arrives on a topic; it is handed to the callback subscribed to
\* the topic, if there is one
Arrival(topic, payload) ==
    LET keys == { k \in Keys : <<k, Some(topic)>> \in call.sub_state }
        dispatched == call.pc = "idle" /\ keys # {}
        key == IF dispatched THEN CHOOSE k \in keys : TRUE ELSE "none"
    IN  /\ attr' = IF dispatched
                   THEN Callback(key, entity, attr, payload).attr
                   ELSE attr
        /\ last' = Observed("arrival", topic, key, payload, dispatched, attr)
        /\ UNCHANGED <<config, entity, call>>

NextSubscribe ==
    \/ \E cfg \in SubscribeConfigs : DiscoveryUpdate(cfg)
    \/ Subscribed
    \/ \E topic \in Topics : \E payload \in ArrivingPayloads : Arrival(topic, payload)

SpecSubscribe == InitSubscribe /\ [][NextSubscribe]_vars

(***************************************************************************)
(* Properties of the subscriptions (specification SpecSubscribe).          *)
(***************************************************************************)
\* C21: the entity always holds what _setup_from_config made of the
\* configuration in force; a message is handed to a callback only when no
\* discovery update is waiting for its subscriptions and the topic is a state
\* topic of the configuration in force, so never on a topic that only an
\* earlier configuration had and never before the subscriptions of the new
\* one are complete; the callback is the one of that topic in the
\* configuration in force and decodes with its payloads, speed range and
\* preset modes; a message that is not handed over changes nothing
C21_AtomicReconfiguration ==
    /\ entity = setup_from_config(config)
    /\ last.op = "arrival" =>
          /\ last.dispatched
             <=> /\ call.pc = "idle"
                 /\ \E k \in Keys : config[k] = Some(last.topic)
          /\ last.dispatched
             => /\ last.key \in Keys
                /\ config[last.key] = Some(last.topic)
                /\ attr = Callback(last.key, setup_from_config(config),
                                   last.before, last.payload).attr
          /\ ~last.dispatched => attr = last.before

\* C21 witness: after messages were handled a discovery update has brought
\* the state topic "state_b" and waits for its subscriptions; a message on
\* "state_b" has arrived and was not handed to a callback
C21_Witness ==
    /\ call.pc = "subscribe"
    /\ config.state_topic = Some("state_b")
    /\ last.op = "arrival"
    /\ last.topic = "state_b"
    /\ ~last.dispatched
    /\ attr.is_on = Some(TRUE)

\* C22: there is a subscription for a channel exactly when its state topic
\* is configured, on that topic; when the subscriptions have been prepared
\* (at construction and in a discovery update) and before any message is
\* handled, percentage and preset mode are None and oscillating is False for
\* the channels with a state topic, the attributes of the channels without
\* one are what they were, and is_on is what it was
C22_SubscriptionSetup ==
    /\ call.sub_state = { <<k, config[k]>> : k \in { j \in Keys : config[j] # None } }
    /\ last.op \in {"__init__", "discovery_update"} =>
          /\ call.pc = "subscribe"
          /\ attr.is_on = last.before.is_on
          /\ attr.percentage =
                IF config.percentage_state_topic # None THEN None
                ELSE last.before.percentage
          /\ attr.preset_mode =
                IF config.preset_mode_state_topic # None THEN None
                ELSE last.before.preset_mode
          /\ attr.oscillating =
                IF config.oscillation_state_topic # None THEN Some(FALSE)
                ELSE last.before.oscillating

\* C22 witness: a discovery update to a configuration with a percentage state
\* topic and without preset mode and oscillation state topics has reset the
\* percentage and kept is_on, the preset mode and oscillating
C22_Witness ==
    /\ last.op = "discovery_update"
    /\ config.percentage_state_topic # None
    /\ config.preset_mode_state_topic = None
    /\ config.oscillation_state_topic = None
    /\ last.before.percentage # None
    /\ attr.percentage = None
    /\ attr.is_on = Some(TRUE)
    /\ attr.preset_mode = Some(S_turbo)
    /\ attr.oscillating = Some(TRUE)

(***************************************************************************)
(* The ecoforest integration: async_setup_entry and async_unload_entry.    *)
(* config holds the state of every config entry as the config entries      *)
(* manager keeps it, entity holds hass.data[DOMAIN] as a set of <<key,      *)
(* value>> items, attr holds the entries whose platforms are set up, and    *)
(* last holds the last call, its inputs, its outcome and hass.data[DOMAIN]  *)
(* before it.                                                              *)
(***************************************************************************)
\* the config entries: entry_id and entry.data
Entries ==
    { [entry_id |-> "entry_1", host |-> "http://stove_1", username |-> "user_1",
       password |-> "secret_1"],
      [entry_id |-> "entry_2", host |-> "http://stove_2", username |-> "user_2",
       password |-> "secret_2"],
      [entry_id |-> "entry_3", host |-> "http://stove_1", username |-> "user_3",
       password |-> "secret_3"] }

\* what the authentication request gives: a response with a status code, or
\* None when requests raises instead
Responses == {Some(200), Some(401), Some(404), Some(500), None}

\* the keys of a dict kept as a set of items
DictKeys(data) == { item[1] : item \in data }

\* dict[key] = value
DictSet(data, key, value) ==
    { item \in data : item[1] # key } \cup {<<key, value>>}

\* async_setup_entry: the new hass.data[DOMAIN], whether the platforms were
\* forwarded, and the outcome
async_setup_entry(data, entry, response) ==
    LET session == [auth |-> <<entry.username, entry.password>>]
    IN  IF response = None
        THEN [data |-> data, forwarded |-> FALSE, outcome |-> "ConnectionError"]
        ELSE IF response[1] = 200
        THEN [data |-> DictSet(data, "api",
                               [session |-> session, host |-> entry.host]),
              forwarded |-> TRUE, outcome |-> "True"]
        ELSE [data |-> data, forwarded |-> FALSE, outcome |-> "False"]

\* async_unload_entry: the new hass.data[DOMAIN] and the outcome, given what
\* async_unload_platforms returned
async_unload_entry(data, entry, unload_ok) ==
    IF unload_ok
    THEN IF entry.entry_id \in DictKeys(data)
         THEN [data |-> { item \in data : item[1] # entry.entry_id },
               outcome |-> "True"]
         ELSE [data |-> data, outcome |-> "KeyError"]
    ELSE [data |-> data, outcome |-> "False"]

Called(op, entry, response, unload_ok, outcome, before) ==
    [op |-> op, entry |-> entry.entry_id, response |-> response,
     unload_ok |-> unload_ok, outcome |-> outcome, before |-> before]

InitEcoforest ==
    /\ config = [e \in Entries |-> "not_loaded"]
    /\ entity = {}
    /\ attr = {}
    /\ call = Idle
    /\ last = [op |-> "none", entry |-> "none", response |-> None,
               unload_ok |-> FALSE, outcome |-> "none", before |-> {}]

\* the config entries manager sets an entry up
SetupEntry(entry, response) ==
    /\ config[entry] \in {"not_loaded", "setup_error"}
    /\ LET r == async_setup_entry(entity, entry, response)
       IN  /\ entity' = r.data
           /\ attr' = IF r.forwarded THEN attr \cup {entry.entry_id} ELSE attr
           /\ config' = [config EXCEPT ![entry] =
                            IF r.outcome = "True" THEN "loaded"
                            ELSE "setup_error"]
           /\ last' = Called("async_setup_entry", entry, response, FALSE,
                             r.outcome, entity)
    /\ UNCHANGED call

\* the config entries manager unloads a loaded entry
UnloadEntry(entry, unload_ok) ==
    /\ config[entry] = "loaded"
    /\ LET r == async_unload_entry(entity, entry, unload_ok)
       IN  /\ entity' = r.data
           /\ attr' = IF unload_ok THEN attr \ {entry.entry_id} ELSE attr
           /\ config' = [config EXCEPT ![entry] =
                            IF r.outcome = "True" THEN "not_loaded"
                            ELSE IF r.outcome = "False" THEN "loaded"
                            ELSE "failed_unload"]
           /\ last' = Called("async_unload_entry", entry, None, unload_ok,
                             r.outcome, entity)
    /\ UNCHANGED call

NextEcoforest ==
    \/ \E entry \in Entries : \E response \in Responses : SetupEntry(entry, response)
    \/ \E entry \in Entries : \E unload_ok \in BOOLEAN : UnloadEntry(entry, unload_ok)

SpecEcoforest == InitEcoforest /\ [][NextEcoforest]_vars

(***************************************************************************)
(* Properties of the ecoforest entry (specification SpecEcoforest).        *)
(***************************************************************************)
\* what async_setup_entry stores for the entry
StoredApi(entry) ==
    [session |-> [auth |-> <<entry.username, entry.password>>], host |-> entry.host]

\* C29, its first half: async_setup_entry returns True and has stored the
\* session and the host under "api" exactly when the authentication request
\* answered with status 200; otherwise it returns False (or the exception of
\* the request comes out) and hass.data[DOMAIN] is as it was
C29_Setup ==
    \A entry \in Entries :
       (last.op = "async_setup_entry" /\ last.entry = entry.entry_id) =>
          /\ last.outcome = "True" <=> last.response = Some(200)
          /\ last.response = Some(200) => <<"api", StoredApi(entry)>> \in entity
          /\ last.response # Some(200)
             => /\ last.outcome \in {"False", "ConnectionError"}
                /\ entity = last.before
                /\ entry.entry_id \notin attr

\* C29: the first half, and an async_unload_entry of a set up entry whose
\* platform unload succeeds returns True, raises nothing and leaves no data
\* stored for the entry
C29_EntryLifecycle ==
    /\ C29_Setup
    /\ \A entry \in Entries :
          (/\ last.op = "async_unload_entry"
           /\ last.entry = entry.entry_id
           /\ last.unload_ok)
          => /\ last.outcome = "True"
             /\ <<"api", StoredApi(entry)>> \notin entity
             /\ entry.entry_id \notin DictKeys(entity)

\* the first entry was set up and its platform unload has succeeded:
\* async_unload_entry has raised KeyError and the data is still stored
C29_UnloadRaised ==
    /\ last.op = "async_unload_entry"
    /\ last.entry = "entry_1"
    /\ last.unload_ok
    /\ last.outcome = "KeyError"
    /\ entity = {<<"api", [session |-> [auth |-> <<"user_1", "secret_1">>],
                           host |-> "http://stove_1"]>>}

====
